---- MODULE Spec2Model ----
(***************************************************************************)
(* Model of the Telegram front end of ImageBot (src/bot.py): the per-user  *)
(* session (user_data["model"], user_data["pending_images"]), the album    *)
(* registry media_groups with its delayed flush tasks, the update handlers *)
(* and process_and_reply with the validation done by src/processor.py.     *)
(*                                                                         *)
(* Scheduling: one asyncio event loop.  Updates are handled one after the  *)
(* other (the Application is built without concurrent updates), so at most *)
(* one handler is in progress; every flush task created by                 *)
(* asyncio.create_task runs concurrently with it.  A step of the model is  *)
(* the code between two suspension points (await) of one coroutine.        *)
(***************************************************************************)
EXTENDS Integers, Sequences, FiniteSets, TLC

\* ---------------------------------------------------------------- bounds
MaxEvents == 2          \* transport events (updates) delivered in one run
MaxTasks == 2           \* flush tasks that exist at the same time
MaxAlbumEvents == 5     \* updates delivered in one run of the album scenario
MaxTextLen == 7         \* length of the texts given to chunk_text
MaxChunkLen == 5        \* largest max_len given to chunk_text
MaxReplies == 3         \* image dispatches that run at the same time

Users == {"u1", "u2"}
GroupIds == {"g1", "g2"}
FileIds == {1, 2}
CaptionLens == {0, 1001}                \* length of the stripped caption
TextLens == {0, 5, 1001, 4000, 4001}    \* length of the stripped text

\* ------------------------------------------------------ program constants
DEFAULT_MODEL == "gpt-image-1.5"
MODELS == {"gpt-5.2", "gpt-image-1", "gpt-image-1.5", "dall-e-2", "create", "dalle_create"}
MaxImages == 10
PromptLimit == 4000
DalleLimit == 1000
TELEGRAM_MAX_MESSAGE == 4000

NoModel == "absent"     \* user_data has no "model" key

CreateModes == {"create", "dalle_create"}
EditModes == {"gpt-image-1", "gpt-image-1.5", "dall-e-2"}

\* The command handlers and the model each of them passes to set_model.
Commands ==
    [start |-> "gpt-5.2", text |-> "gpt-5.2", image1 |-> "gpt-image-1",
     image15 |-> "gpt-image-1.5", dalle |-> "dall-e-2", create |-> "create",
     dalle_gen |-> "dalle_create"]

\* ------------------------------------------------------------- helpers
\* Python s[-n:] for n > 0.
LastN(s, n) == IF Len(s) > n THEN SubSeq(s, Len(s) - n + 1, Len(s)) ELSE s

\* Python s[:n].
FirstN(s, n) == IF Len(s) > n THEN SubSeq(s, 1, n) ELSE s

\* bytes(await f.download_as_bytearray()): the content behind a file id.
Download(fid) == 100 + fid

\* A text is modelled by its length after strip() and by whether the
\* truncation marker was appended.
Text(n) == [len |-> n, cut |-> FALSE]

\* text[:limit] + "\n\n[... обрезано]" when len(text) > limit.
Truncate(t, limit) == IF t.len > limit THEN [len |-> limit, cut |-> TRUE] ELSE t

Blank(t) == t.len = 0 /\ ~t.cut

\* A message sent to user u: a tag for its text and, for the status message,
\* the count it reports.
Msg(u, tag, n) == [to |-> u, tag |-> tag, n |-> n]

\* media_groups has no entry for the group id.
NoGroup == [file_ids |-> <<>>, caption |-> Text(0), user_id |-> "none"]

NoCall == [op |-> "none", model |-> "none", images |-> <<>>, prompt |-> Text(0)]

\* A coroutine (the handler of the current update, or a flush task) with its
\* local variables and the backend requests it has made.  A coroutine that
\* returned (or raised) is Idle again.
Idle ==
    [pc |-> "idle", kind |-> "none", user |-> "none", group |-> "none",
     mode |-> "none", par_model |-> "none", file_ids |-> <<>>, fid |-> 0,
     read |-> <<>>, images |-> <<>>, merged |-> <<>>, prompt |-> Text(0),
     calls |-> 0, call |-> NoCall]

VARIABLES
    model,          \* user_data[u]["model"], NoModel when the key is absent
    pending,        \* user_data[u]["pending_images"] ([] when absent)
    media_groups,   \* media_group_id -> {file_ids, caption, user_id}
    tasks,          \* the flush tasks (process_media_group_after_delay)
    h,              \* the handler of the update being handled
    sent,           \* the messages sent to users by the last step
    arrived,        \* per group id, the file ids of the events since it opened
    events          \* number of updates delivered so far

vars == <<model, pending, media_groups, tasks, h, sent, arrived, events>>

\* A call of chunk_text(text, max_len).
VARIABLES
    chunk_in,       \* the text as passed by the caller
    text,           \* the local text: what remains to be cut
    max_len,        \* the limit
    chunks,         \* the list being built, the result once returned
    cpc             \* position in chunk_text: idle, start, loop, done

cvars == <<chunk_in, text, max_len, chunks, cpc>>

\* No call of chunk_text is in progress.
ChunkIdle ==
    /\ chunk_in = <<>> /\ text = <<>> /\ max_len = TELEGRAM_MAX_MESSAGE
    /\ chunks = <<>> /\ cpc = "idle"

\* The file temp_output.png and the image dispatches that use it.
VARIABLES
    temp_output,    \* content of temp_output.png, Absent when it does not exist
    replies         \* per dispatch: position, result_bytes, the handle photo=

fvars == <<temp_output, replies>>

Replies == 1..MaxReplies

Absent == 0

\* A dispatch that has not started: no result, no handle.
NoReply == [pc |-> "idle", result_bytes |-> Absent, photo |-> Absent]

\* No image dispatch is in progress and the file does not exist.
FileIdle == temp_output = Absent /\ replies = [i \in Replies |-> NoReply]

TaskIds == 1..MaxTasks

\* A session restored by the persistence layer: nine images buffered earlier
\* (file ids 11..19), no mode ever chosen.
Stored9 == [i \in 1..9 |-> Download(10 + i)]

Init ==
    /\ model = [u \in Users |-> NoModel]
    /\ pending \in {[u \in Users |-> <<>>],
                    [u \in Users |-> IF u = "u1" THEN Stored9 ELSE <<>>]}
    /\ media_groups = [g \in GroupIds |-> NoGroup]
    /\ tasks = [t \in TaskIds |-> Idle]
    /\ h = Idle
    /\ sent = <<>>
    /\ arrived = [g \in GroupIds |-> <<>>]
    /\ events = 0
    /\ ChunkIdle
    /\ FileIdle

\* ------------------------------------------------------------- session
get_model(u) == IF model[u] = NoModel THEN DEFAULT_MODEL ELSE model[u]

\* Mutant of set_model: the mode is kept in one place for all conversations.
set_model_global(u, m) == [v \in Users |-> m]

set_model(u, m) == [model EXCEPT ![u] = m]

\* ----------------------------------------------------------- processor
\* Mutant of process: the arguments are not validated.
processUnchecked(images, prompt, mdl) ==
    [op |-> "edit", model |-> mdl,
     images |-> IF mdl = "dall-e-2" /\ Len(images) > 1
                THEN FirstN(images, 1) ELSE images,
     prompt |-> prompt]

\* ImageProcessor.process: the request sent to images.edit, NoCall when the
\* validation raises ValueError before any request is made.
process(images, prompt, mdl) ==
    IF ~(1 <= Len(images) /\ Len(images) <= MaxImages) THEN NoCall
    ELSE IF Blank(prompt) THEN NoCall
    ELSE [op |-> "edit", model |-> mdl,
          images |-> IF mdl = "dall-e-2" /\ Len(images) > 1
                     THEN FirstN(images, 1) ELSE images,
          prompt |-> prompt]

\* ImageProcessor.process_create: the request sent to images.generate.
process_create(prompt, mdl) ==
    IF Blank(prompt) THEN NoCall
    ELSE [op |-> "generate", model |-> mdl, images |-> <<>>, prompt |-> prompt]

\* ImageProcessor.process_text_with_image: chat request with one image.
process_text_with_image(image, prompt, mdl) ==
    [op |-> "chat", model |-> mdl, images |-> <<image>>, prompt |-> prompt]

\* ImageProcessor.process_text_only: chat request without image.
process_text_only(prompt, mdl) ==
    IF Blank(prompt) THEN NoCall
    ELSE [op |-> "chat", model |-> mdl, images |-> <<>>, prompt |-> prompt]

\* ----------------------------------------------------- process_and_reply
\* Entry of process_and_reply up to its first await, the sending of the
\* progress message: the mode is read.
ParEnter(p, imgs, prompt) ==
    [p EXCEPT !.pc = "progress", !.par_model = get_model(p.user),
              !.images = imgs, !.prompt = prompt, !.merged = <<>>]

Progress(p) == <<Msg(p.user, "progress", 0)>>

\* The processor call process_and_reply makes for the mode it read.
BackendRequest(p) ==
    CASE p.par_model = "create" -> process_create(p.prompt, "gpt-image-1.5")
      [] p.par_model = "dalle_create" -> process_create(p.prompt, "dall-e-2")
      [] p.par_model = "gpt-5.2" ->
            IF p.images # <<>>
            THEN process_text_with_image(FirstN(p.images, 1)[1], p.prompt, p.par_model)
            ELSE process_text_only(p.prompt, p.par_model)
      [] OTHER -> process(p.images, p.prompt, p.par_model)

\* The progress message was sent: the processor runs in a thread and makes
\* its request.  A ValueError of its validation ends process_and_reply.
ParCall(p) ==
    IF BackendRequest(p) = NoCall
    THEN Idle
    ELSE [p EXCEPT !.pc = "backend", !.calls = @ + 1, !.call = BackendRequest(p)]

\* Mutant of ParCallMsgs: the ValueError is not shown.
ParCallMsgsSilent(p) == <<>>

\* The ValueError is shown by editing the progress message.
ParCallMsgs(p) ==
    IF BackendRequest(p) = NoCall THEN <<Msg(p.user, "edit:invalid", 0)>> ELSE <<>>

Outcomes == {"ok", "empty", "blocked", "error"}

\* Mutant of format_image_error: the moderation code is not recognised.
format_image_error_raw(outcome) == "edit:error"

\* _format_image_error: the fixed moderation text for an exception that
\* carries the code moderation_blocked, str(exc) for any other.
format_image_error(outcome) ==
    IF outcome = "blocked" THEN "edit:blocked" ELSE "edit:error"

\* Mutant of ParReturnMsgs: the answer of the text mode is handled by the
\* image branch.
ParReturnMsgsAsImage(p, outcome) ==
    CASE outcome = "ok" -> <<Msg(p.user, "photo", 0), Msg(p.user, "delete", 0)>>
      [] outcome = "blocked" -> <<Msg(p.user, "edit:blocked", 0)>>
      [] OTHER -> <<Msg(p.user, "edit:error", 0)>>

\* Mutant of ParReturnMsgs: an empty chat answer is not announced (no parts,
\* so nothing is sent after the progress message was deleted).
ParReturnMsgsSilentEmpty(p, outcome) ==
    IF p.par_model = "gpt-5.2"
    THEN CASE outcome = "ok" -> <<Msg(p.user, "delete", 0), Msg(p.user, "text", 0)>>
           [] outcome = "empty" -> <<Msg(p.user, "delete", 0)>>
           [] OTHER -> <<Msg(p.user, "edit:error", 0)>>
    ELSE CASE outcome = "ok" -> <<Msg(p.user, "photo", 0), Msg(p.user, "delete", 0)>>
           [] OTHER -> <<Msg(p.user, format_image_error(outcome), 0)>>

\* The backend answered (or raised): what process_and_reply sends before it
\* returns.
ParReturnMsgs(p, outcome) ==
    IF p.par_model = "gpt-5.2"
    THEN CASE outcome = "ok" -> <<Msg(p.user, "delete", 0), Msg(p.user, "text", 0)>>
           [] outcome = "empty" -> <<Msg(p.user, "delete", 0), Msg(p.user, "empty_answer", 0)>>
           [] OTHER -> <<Msg(p.user, "edit:error", 0)>>
    ELSE CASE outcome = "ok" -> <<Msg(p.user, "photo", 0), Msg(p.user, "delete", 0)>>
           [] OTHER -> <<Msg(p.user, format_image_error(outcome), 0)>>

\* Mutant of ParReturn: a failed request is made again.
ParReturnRetry(p, outcome) ==
    IF outcome \in {"error", "empty"} THEN [p EXCEPT !.pc = "progress"] ELSE Idle

\* process_and_reply returns after the backend's answer, whatever it was.
ParReturn(p, outcome) == Idle

\* ------------------------------------------------------------- handlers
\* Updates are handled one at a time: the next one is taken when the handler
\* of the previous one has returned.
HandlerFree == h.pc = "idle"

\* The coroutine of a new update of kind k from user u.
Fresh(k, u) == [Idle EXCEPT !.pc = "run", !.kind = k, !.user = u, !.mode = get_model(u)]

\* Mutant of ModeCommand: the open groups of the conversation are dropped
\* when the mode changes.
ModeCommandDropsGroups(u, c) ==
    /\ HandlerFree
    /\ events' = events + 1
    /\ model' = set_model(u, Commands[c])
    /\ sent' = <<Msg(u, "mode", 0)>>
    /\ media_groups' = [g \in GroupIds |->
                          IF media_groups[g].user_id = u
                          THEN [file_ids |-> <<>>, caption |-> Text(0), user_id |-> "none"]
                          ELSE media_groups[g]]
    /\ UNCHANGED <<pending, tasks, h, arrived>>

\* start, cmd_text, cmd_image1, cmd_image15, cmd_dalle, cmd_create,
\* cmd_dalle_gen: set_model and a confirmation.
ModeCommand(u, c) ==
    /\ HandlerFree
    /\ events' = events + 1
    /\ model' = set_model(u, Commands[c])
    /\ sent' = <<Msg(u, "mode", 0)>>
    /\ UNCHANGED <<pending, media_groups, tasks, h, arrived>>

\* Mutant of Store: the list is never dispatched, with or without caption.
StoreNeverDispatches(p) == Idle

\* After the list of images is final: a caption empties the buffer and
\* dispatches the list, no caption stores it and reports the count.
Store(p) ==
    IF ~Blank(p.prompt) THEN ParEnter(p, p.images, p.prompt) ELSE Idle

\* Mutant of StoredPending: the buffer is not emptied on dispatch.
StoredPendingKeeps(p) == p.images

StoredPending(p) == IF ~Blank(p.prompt) THEN <<>> ELSE p.images

\* Mutant of StoreMsgs: the status reports the count before the cap.
StoreMsgsBeforeCap(p) ==
    IF ~Blank(p.prompt) THEN Progress(p) ELSE <<Msg(p.user, "status", Len(p.merged))>>

StoreMsgs(p) ==
    IF ~Blank(p.prompt) THEN Progress(p) ELSE <<Msg(p.user, "status", Len(p.images))>>

\* Mutant of Cap: the first 10 are kept instead of the last 10.
CapKeepsFirst(p, imgs) ==
    IF Len(imgs) > MaxImages
    THEN [p EXCEPT !.pc = "warn", !.merged = imgs, !.images = FirstN(imgs, MaxImages)]
    ELSE [p EXCEPT !.merged = imgs, !.images = imgs]

\* More than 10 images: the warning is sent (an await) and the last 10 kept.
Cap(p, imgs) ==
    IF Len(imgs) > MaxImages
    THEN [p EXCEPT !.pc = "warn", !.merged = imgs, !.images = LastN(imgs, MaxImages)]
    ELSE [p EXCEPT !.merged = imgs, !.images = imgs]

\* Mutant of AddPart: the new file id is put in front.
AddPartFront(group, fid) == [group EXCEPT !.file_ids = <<fid>> \o @]

\* media_groups[group_id]["file_ids"].append(file_id)
AddPart(group, fid) == [group EXCEPT !.file_ids = Append(@, fid)]

\* The entry handle_images makes for a group id it sees for the first time.
NewGroup(u, fid, cap) == [file_ids |-> <<fid>>, caption |-> Text(cap), user_id |-> u]

\* Mutant of FlushTask: no flush task is created for the new group.
FlushTaskNone(g) == Idle

\* asyncio.create_task(process_media_group_after_delay(group_id, ...)): the
\* new task, which first sleeps MEDIA_GROUP_DELAY seconds.
FlushTask(g) == [Idle EXCEPT !.pc = "sleep", !.kind = "flush", !.group = g]

\* Mutant of JoinTasks: a part that joins an open group restarts the flush
\* of the group in a free task and drops the waiting one.
JoinTasksRestarts(g) ==
    [t \in TaskIds |->
        IF tasks[t].pc = "sleep" /\ tasks[t].group = g THEN Idle
        ELSE IF /\ tasks[t].pc = "idle"
                /\ \A s \in TaskIds : s < t => tasks[s].pc # "idle"
             THEN FlushTask(g)
             ELSE tasks[t]]

\* The tasks after a part joined an open group: that branch of
\* handle_images creates no task and holds no handle of the waiting one.
JoinTasks(g) == tasks

\* handle_images, an update with a media_group_id: the file id joins the
\* open group, or opens one and creates its flush task.
AlbumPart(u, g, fid, cap) ==
    /\ HandlerFree
    /\ events' = events + 1
    /\ arrived' = [arrived EXCEPT ![g] = Append(@, fid)]
    /\ IF media_groups[g] # NoGroup
       THEN /\ media_groups' = [media_groups EXCEPT ![g] = AddPart(@, fid)]
            /\ tasks' = JoinTasks(g)
       ELSE /\ \E t \in TaskIds :
                 /\ tasks[t].pc = "idle"
                 /\ \A s \in TaskIds : s < t => tasks[s].pc # "idle"
                 /\ tasks' = [tasks EXCEPT ![t] = FlushTask(g)]
            /\ media_groups' = [media_groups EXCEPT ![g] = NewGroup(u, fid, cap)]
    /\ sent' = <<>>
    /\ UNCHANGED <<model, pending, h>>

\* handle_images, a single photo or image document, up to its first await.
SinglePhoto(u, fid, cap) ==
    /\ HandlerFree
    /\ events' = events + 1
    /\ LET p == [Fresh("photo", u) EXCEPT !.fid = fid, !.prompt = Text(cap)] IN
       IF get_model(u) \in CreateModes
       THEN IF cap # 0
            THEN /\ pending' = [pending EXCEPT ![u] = <<>>]
                 /\ h' = ParEnter(p, <<>>, Text(cap))
                 /\ sent' = Progress(p)
            ELSE /\ h' = Idle
                 /\ sent' = <<Msg(u, "gen_only", 0)>>
                 /\ UNCHANGED pending
       ELSE /\ h' = [p EXCEPT !.pc = "download", !.read = pending[u],
                              !.images = IF get_model(u) = "gpt-5.2" THEN <<>> ELSE pending[u]]
            /\ sent' = <<>>
            /\ UNCHANGED pending
    /\ UNCHANGED <<model, media_groups, tasks, arrived>>

\* handle_images after get_file / download_as_bytearray returned: the image is
\* appended to the list read before the await, then capped and stored.  A
\* download that raises ends the handler.
PhotoDownloaded(ok) ==
    /\ h.pc = "download"
    /\ IF ~ok
       THEN /\ h' = Idle
            /\ sent' = <<>>
            /\ UNCHANGED pending
       ELSE LET p == Cap(h, Append(h.images, Download(h.fid))) IN
            IF p.pc = "warn"
            THEN /\ h' = p
                 /\ sent' = <<Msg(h.user, "warn10", 0)>>
                 /\ UNCHANGED pending
            ELSE /\ h' = Store(p)
                 /\ sent' = StoreMsgs(p)
                 /\ pending' = [pending EXCEPT ![h.user] = StoredPending(p)]
    /\ UNCHANGED <<model, media_groups, tasks, arrived, events>>

\* handle_images resumed after the "maximum 10" warning was sent.
PhotoStore ==
    /\ h.pc = "warn"
    /\ h' = Store(h)
    /\ sent' = StoreMsgs(h)
    /\ pending' = [pending EXCEPT ![h.user] = StoredPending(h)]
    /\ UNCHANGED <<model, media_groups, tasks, arrived, events>>

\* Mutant of TextLimit: the DALL-E limit is applied in every mode.
TextLimitLegacy(mdl) == DalleLimit

\* The length limit handle_text applies in a mode.
TextLimit(mdl) == IF mdl = "dalle_create" THEN DalleLimit ELSE PromptLimit

\* Mutant of NeedsImage: the check for buffered images is missing.
NeedsImageNever(mdl, imgs) == FALSE

\* handle_text in an edit mode: "if not images", nothing to edit.
NeedsImage(mdl, imgs) == mdl \in EditModes /\ imgs = <<>>

\* handle_text up to its first await.
TextMessage(u, n) ==
    /\ HandlerFree
    /\ events' = events + 1
    /\ LET mdl == get_model(u)
           imgs == IF mdl \in CreateModes THEN <<>> ELSE pending[u]
           p == [Fresh("text", u) EXCEPT !.read = pending[u], !.images = imgs,
                                         !.prompt = Truncate(Text(n), TextLimit(mdl))]
       IN
       IF mdl \in CreateModes \cup {"gpt-5.2"} /\ n = 0
       THEN /\ h' = Idle
            /\ sent' = <<Msg(u, "need_text", 0)>>
            /\ UNCHANGED pending
       ELSE IF NeedsImage(mdl, pending[u])
       THEN /\ h' = Idle
            /\ sent' = <<Msg(u, "need_image", 0)>>
            /\ UNCHANGED pending
       ELSE IF n > TextLimit(mdl)
       THEN /\ h' = [p EXCEPT !.pc = "textwarn"]
            /\ sent' = <<Msg(u, "cut", 0)>>
            /\ UNCHANGED pending
       ELSE /\ pending' = [pending EXCEPT ![u] = <<>>]
            /\ h' = ParEnter(p, imgs, p.prompt)
            /\ sent' = Progress(p)
    /\ UNCHANGED <<model, media_groups, tasks, arrived>>

\* handle_text resumed after the truncation warning was sent.
TextResume ==
    /\ h.pc = "textwarn"
    /\ pending' = [pending EXCEPT ![h.user] = <<>>]
    /\ h' = ParEnter(h, h.images, h.prompt)
    /\ sent' = Progress(h)
    /\ UNCHANGED <<model, media_groups, tasks, arrived, events>>

\* process_and_reply called by a handler: the processor call.
HandlerCall ==
    /\ h.pc = "progress"
    /\ h' = ParCall(h)
    /\ sent' = ParCallMsgs(h)
    /\ UNCHANGED <<model, pending, media_groups, tasks, arrived, events>>

\* process_and_reply called by a handler: the backend's answer.
HandlerReturn(outcome) ==
    /\ h.pc = "backend"
    /\ h' = ParReturn(h, outcome)
    /\ sent' = ParReturnMsgs(h, outcome)
    /\ UNCHANGED <<model, pending, media_groups, tasks, arrived, events>>

\* ---------------------------------------- process_media_group_after_delay
\* Mutant of Pop: the group is read but left in the registry.
PopKeeps(g) == media_groups

\* Mutant of Pop: the group is emptied but stays in the registry.
PopEmpties(g) == [media_groups EXCEPT ![g] = [@ EXCEPT !.file_ids = <<>>]]

\* media_groups.pop(group_id, None): the registry without the group.
Pop(g) == [media_groups EXCEPT ![g] = NoGroup]

\* The sleep is over: the group is popped from the registry and the mode
\* is read.  In the create modes nothing is downloaded.
FlushPop(t) ==
    /\ tasks[t].pc = "sleep"
    /\ LET g == tasks[t].group
           data == media_groups[g]
       IN
       IF data = NoGroup
       THEN /\ tasks' = [tasks EXCEPT ![t] = Idle]
            /\ sent' = <<>>
            /\ UNCHANGED <<pending, media_groups, arrived>>
       ELSE LET u == data.user_id
                p == [tasks[t] EXCEPT !.user = u, !.file_ids = data.file_ids,
                                      !.prompt = data.caption, !.mode = get_model(u)]
            IN
            /\ media_groups' = Pop(g)
            /\ arrived' = [arrived EXCEPT ![g] = <<>>]
            /\ IF p.mode \in CreateModes
               THEN /\ pending' = [pending EXCEPT ![u] = <<>>]
                    /\ IF ~Blank(p.prompt)
                       THEN /\ tasks' = [tasks EXCEPT ![t] = ParEnter(p, <<>>, p.prompt)]
                            /\ sent' = Progress(p)
                       ELSE /\ tasks' = [tasks EXCEPT ![t] = Idle]
                            /\ sent' = <<Msg(u, "gen_only", 0)>>
               ELSE /\ tasks' = [tasks EXCEPT ![t] = [p EXCEPT !.pc = "download"]]
                    /\ sent' = <<>>
                    /\ UNCHANGED pending
    /\ UNCHANGED <<model, h, events>>

\* The images of the album merged with the buffered ones, as the flush does
\* after its last download.
Merge(mdl, existing, images) ==
    IF mdl = "gpt-5.2" THEN FirstN(images, 1) ELSE existing \o images

\* Mutant of FlushDownload: when a download raises, the images downloaded
\* so far are added to the buffer.
FlushDownloadKeepsPartial(t, ok) ==
    /\ tasks[t].pc = "download"
    /\ LET p == tasks[t]
           imgs == Append(p.images, Download(p.file_ids[Len(p.images) + 1]))
       IN
       IF ~ok
       THEN /\ tasks' = [tasks EXCEPT ![t] = Idle]
            /\ sent' = <<>>
            /\ pending' = [pending EXCEPT ![p.user] = LastN(@ \o p.images, MaxImages)]
       ELSE IF Len(imgs) < Len(p.file_ids)
       THEN /\ tasks' = [tasks EXCEPT ![t] = [p EXCEPT !.images = imgs]]
            /\ sent' = <<>>
            /\ UNCHANGED pending
       ELSE LET q == Cap([p EXCEPT !.read = pending[p.user]],
                         Merge(p.mode, pending[p.user], imgs))
            IN
            IF q.pc = "warn"
            THEN /\ tasks' = [tasks EXCEPT ![t] = q]
                 /\ sent' = <<Msg(p.user, "warn10", 0)>>
                 /\ UNCHANGED pending
            ELSE /\ tasks' = [tasks EXCEPT ![t] = Store(q)]
                 /\ sent' = StoreMsgs(q)
                 /\ pending' = [pending EXCEPT ![p.user] = StoredPending(q)]
    /\ UNCHANGED <<model, media_groups, h, arrived, events>>

\* One file of the album was downloaded (or the download raised, which ends
\* the task).  After the last one the buffered images are read, merged,
\* capped and stored.
FlushDownload(t, ok) ==
    /\ tasks[t].pc = "download"
    /\ LET p == tasks[t]
           imgs == Append(p.images, Download(p.file_ids[Len(p.images) + 1]))
       IN
       IF ~ok
       THEN /\ tasks' = [tasks EXCEPT ![t] = Idle]
            /\ sent' = <<>>
            /\ UNCHANGED pending
       ELSE IF Len(imgs) < Len(p.file_ids)
       THEN /\ tasks' = [tasks EXCEPT ![t] = [p EXCEPT !.images = imgs]]
            /\ sent' = <<>>
            /\ UNCHANGED pending
       ELSE LET q == Cap([p EXCEPT !.read = pending[p.user]],
                         Merge(p.mode, pending[p.user], imgs))
            IN
            IF q.pc = "warn"
            THEN /\ tasks' = [tasks EXCEPT ![t] = q]
                 /\ sent' = <<Msg(p.user, "warn10", 0)>>
                 /\ UNCHANGED pending
            ELSE /\ tasks' = [tasks EXCEPT ![t] = Store(q)]
                 /\ sent' = StoreMsgs(q)
                 /\ pending' = [pending EXCEPT ![p.user] = StoredPending(q)]
    /\ UNCHANGED <<model, media_groups, h, arrived, events>>

\* The flush resumed after the "maximum 10" warning was sent.
FlushStore(t) ==
    /\ tasks[t].pc = "warn"
    /\ tasks' = [tasks EXCEPT ![t] = Store(@)]
    /\ sent' = StoreMsgs(tasks[t])
    /\ pending' = [pending EXCEPT ![tasks[t].user] = StoredPending(tasks[t])]
    /\ UNCHANGED <<model, media_groups, h, arrived, events>>

\* process_and_reply called by a flush: the processor call.
FlushCall(t) ==
    /\ tasks[t].pc = "progress"
    /\ tasks' = [tasks EXCEPT ![t] = ParCall(@)]
    /\ sent' = ParCallMsgs(tasks[t])
    /\ UNCHANGED <<model, pending, media_groups, h, arrived, events>>

\* process_and_reply called by a flush: the backend's answer.
FlushReturn(t, outcome) ==
    /\ tasks[t].pc = "backend"
    /\ tasks' = [tasks EXCEPT ![t] = ParReturn(@, outcome)]
    /\ sent' = ParReturnMsgs(tasks[t], outcome)
    /\ UNCHANGED <<model, pending, media_groups, h, arrived, events>>

\* ------------------------------------------------------------ behaviour
\* The transport delivers another update.
Deliver == events < MaxEvents

Next ==
    \/ Deliver /\ \E u \in Users, c \in DOMAIN Commands : ModeCommand(u, c) /\ UNCHANGED <<cvars, fvars>>
    \/ Deliver /\ \E u \in Users, n \in TextLens : TextMessage(u, n) /\ UNCHANGED <<cvars, fvars>>
    \/ Deliver /\ \E u \in Users, g \in GroupIds, f \in FileIds, c \in CaptionLens :
                      AlbumPart(u, g, f, c) /\ UNCHANGED <<cvars, fvars>>
    \/ Deliver /\ \E u \in Users, f \in FileIds, c \in CaptionLens : SinglePhoto(u, f, c) /\ UNCHANGED <<cvars, fvars>>
    \/ \E ok \in BOOLEAN : PhotoDownloaded(ok) /\ UNCHANGED <<cvars, fvars>>
    \/ PhotoStore /\ UNCHANGED <<cvars, fvars>>
    \/ TextResume /\ UNCHANGED <<cvars, fvars>>
    \/ HandlerCall /\ UNCHANGED <<cvars, fvars>>
    \/ \E o \in Outcomes : HandlerReturn(o) /\ UNCHANGED <<cvars, fvars>>
    \/ \E t \in TaskIds : FlushPop(t) /\ UNCHANGED <<cvars, fvars>>
    \/ \E t \in TaskIds, ok \in BOOLEAN : FlushDownload(t, ok) /\ UNCHANGED <<cvars, fvars>>
    \/ \E t \in TaskIds : FlushStore(t) /\ UNCHANGED <<cvars, fvars>>
    \/ \E t \in TaskIds : FlushCall(t) /\ UNCHANGED <<cvars, fvars>>
    \/ \E t \in TaskIds, o \in Outcomes : FlushReturn(t, o) /\ UNCHANGED <<cvars, fvars>>

Spec == Init /\ [][Next]_vars

\* ------------------------------------------------------- album scenario
\* One conversation that chooses a mode and sends album parts with the same
\* media_group_id, every part a new file (the k-th update carries file k),
\* with or without a caption; the flush tasks run as in Spec.
AlbumUser == "u1"
AlbumGroup == "g1"
AlbumCommands == {"image1", "dalle", "create"}
AlbumCaptions == {0, 12}

DeliverAlbum == events < MaxAlbumEvents

NextAlbum ==
    \/ DeliverAlbum /\ \E c \in AlbumCommands : ModeCommand(AlbumUser, c) /\ UNCHANGED <<cvars, fvars>>
    \/ DeliverAlbum /\ \E c \in AlbumCaptions :
                           AlbumPart(AlbumUser, AlbumGroup, events + 1, c) /\ UNCHANGED <<cvars, fvars>>
    \/ \E t \in TaskIds : FlushPop(t) /\ UNCHANGED <<cvars, fvars>>
    \/ \E t \in TaskIds, ok \in BOOLEAN : FlushDownload(t, ok) /\ UNCHANGED <<cvars, fvars>>
    \/ \E t \in TaskIds : FlushStore(t) /\ UNCHANGED <<cvars, fvars>>
    \/ \E t \in TaskIds : FlushCall(t) /\ UNCHANGED <<cvars, fvars>>
    \/ \E t \in TaskIds, o \in Outcomes : FlushReturn(t, o) /\ UNCHANGED <<cvars, fvars>>

SpecAlbum == Init /\ [][NextAlbum]_vars

\* ------------------------------------------------------- flush scenario
\* One conversation that chooses a mode and sends album parts of either
\* group id.  The event loop runs every task that is ready: a flush task
\* whose sleep, download or backend call is over takes its next step.
MaxFlushEvents == 2     \* updates delivered in one run of the flush scenario

DeliverFlush == events < MaxFlushEvents

FlushStep(t) ==
    \/ FlushPop(t)
    \/ \E ok \in BOOLEAN : FlushDownload(t, ok)
    \/ FlushStore(t)
    \/ FlushCall(t)
    \/ \E o \in Outcomes : FlushReturn(t, o)

NextFlush ==
    \/ DeliverFlush /\ \E c \in AlbumCommands : ModeCommand(AlbumUser, c) /\ UNCHANGED <<cvars, fvars>>
    \/ DeliverFlush /\ \E g \in GroupIds, c \in AlbumCaptions :
                           AlbumPart(AlbumUser, g, events + 1, c) /\ UNCHANGED <<cvars, fvars>>
    \/ \E t \in TaskIds : FlushPop(t) /\ UNCHANGED <<cvars, fvars>>
    \/ \E t \in TaskIds, ok \in BOOLEAN : FlushDownload(t, ok) /\ UNCHANGED <<cvars, fvars>>
    \/ \E t \in TaskIds : FlushStore(t) /\ UNCHANGED <<cvars, fvars>>
    \/ \E t \in TaskIds : FlushCall(t) /\ UNCHANGED <<cvars, fvars>>
    \/ \E t \in TaskIds, o \in Outcomes : FlushReturn(t, o) /\ UNCHANGED <<cvars, fvars>>

SpecFlush ==
    Init /\ [][NextFlush]_vars /\ \A t \in TaskIds : WF_vars(FlushStep(t))

\* -------------------------------------------------------- race scenario
\* One conversation that sends mode commands, texts, single photos and
\* album parts of one group id while its handlers and flush tasks run.
MaxRaceEvents == 2      \* updates delivered in one run of the race scenario
RaceCommands == {"text", "image1", "dalle", "create"}
RaceTexts == {0, 5, 4001}

DeliverRace == events < MaxRaceEvents

NextRace ==
    \/ DeliverRace /\ \E c \in RaceCommands : ModeCommand(AlbumUser, c) /\ UNCHANGED <<cvars, fvars>>
    \/ DeliverRace /\ \E n \in RaceTexts : TextMessage(AlbumUser, n) /\ UNCHANGED <<cvars, fvars>>
    \/ DeliverRace /\ \E c \in AlbumCaptions :
                          SinglePhoto(AlbumUser, events + 1, c) /\ UNCHANGED <<cvars, fvars>>
    \/ DeliverRace /\ \E c \in AlbumCaptions :
                          AlbumPart(AlbumUser, AlbumGroup, events + 1, c) /\ UNCHANGED <<cvars, fvars>>
    \/ \E ok \in BOOLEAN : PhotoDownloaded(ok) /\ UNCHANGED <<cvars, fvars>>
    \/ PhotoStore /\ UNCHANGED <<cvars, fvars>>
    \/ TextResume /\ UNCHANGED <<cvars, fvars>>
    \/ HandlerCall /\ UNCHANGED <<cvars, fvars>>
    \/ \E o \in Outcomes : HandlerReturn(o) /\ UNCHANGED <<cvars, fvars>>
    \/ \E t \in TaskIds : FlushPop(t) /\ UNCHANGED <<cvars, fvars>>
    \/ \E t \in TaskIds, ok \in BOOLEAN : FlushDownload(t, ok) /\ UNCHANGED <<cvars, fvars>>
    \/ \E t \in TaskIds : FlushStore(t) /\ UNCHANGED <<cvars, fvars>>
    \/ \E t \in TaskIds : FlushCall(t) /\ UNCHANGED <<cvars, fvars>>
    \/ \E t \in TaskIds, o \in Outcomes : FlushReturn(t, o) /\ UNCHANGED <<cvars, fvars>>

SpecRace ==
    Init /\ [][NextRace]_vars /\ \A t \in TaskIds : WF_vars(FlushStep(t))

\* ------------------------------------------------------------ chunk_text
\* Texts are sequences over a letter and the newline.
NL == "\n"
Chars == {"a", NL}
Texts == UNION {[1..n -> Chars] : n \in 0..MaxTextLen}

\* Python s.rfind(c): the 0-based index of the last c in s, -1 when absent.
rfind(s, c) ==
    IF \E i \in 1..Len(s) : s[i] = c
    THEN (CHOOSE i \in 1..Len(s) : s[i] = c /\ \A j \in (i + 1)..Len(s) : s[j] # c) - 1
    ELSE -1

\* Mutant of Cut: the newline is preferred when it lies in the first half of
\* the window.
CutFirstHalf(t, m) ==
    LET chunk == FirstN(t, m)
        last_nl == rfind(chunk, NL)
    IN IF last_nl >= 0 /\ last_nl <= m \div 2 THEN FirstN(t, last_nl + 1) ELSE chunk

\* Mutant of Cut: the chunk ends before the last newline of the window.
CutBeforeNewline(t, m) ==
    LET chunk == FirstN(t, m)
        last_nl == rfind(chunk, NL)
    IN IF last_nl >= 0 THEN FirstN(t, last_nl) ELSE chunk

\* The chunk one iteration of the loop takes from text t.
Cut(t, m) ==
    LET chunk == FirstN(t, m)
        last_nl == rfind(chunk, NL)
    IN IF last_nl > m \div 2 THEN FirstN(t, last_nl + 1) ELSE chunk

\* Mutant of Advance: the character after the chunk is skipped.
AdvanceSkips(t, chunk) == SubSeq(t, Len(chunk) + 2, Len(t))

\* text[len(chunk):]
Advance(t, chunk) == SubSeq(t, Len(chunk) + 1, Len(t))

\* Mutant of Short: the text is returned as the only chunk even when empty.
ShortAlways(t) == <<t>>

\* [text] if text else []
Short(t) == IF t # <<>> THEN <<t>> ELSE <<>>

\* The result of the while loop on text t.
RECURSIVE chunk_loop(_, _)
chunk_loop(t, m) ==
    IF t = <<>> THEN <<>>
    ELSE LET chunk == Cut(t, m) IN <<chunk>> \o chunk_loop(Advance(t, chunk), m)

\* chunk_text as a function of its arguments.
chunk_text(t, m) == IF Len(t) <= m THEN Short(t) ELSE chunk_loop(t, m)

\* Entry of chunk_text: a text that fits is returned at once.
ChunkEnter ==
    /\ cpc = "start"
    /\ IF Len(text) <= max_len
       THEN chunks' = Short(text) /\ cpc' = "done"
       ELSE chunks' = <<>> /\ cpc' = "loop"
    /\ UNCHANGED <<chunk_in, text, max_len>>
    /\ UNCHANGED <<vars, fvars>>

\* One iteration of the while loop.
ChunkIteration ==
    /\ cpc = "loop" /\ text # <<>>
    /\ LET chunk == Cut(text, max_len)
       IN /\ chunks' = Append(chunks, chunk)
          /\ text' = Advance(text, chunk)
    /\ UNCHANGED <<chunk_in, max_len, cpc>>
    /\ UNCHANGED <<vars, fvars>>

\* The loop condition fails: return chunks.
ChunkReturn ==
    /\ cpc = "loop" /\ text = <<>>
    /\ cpc' = "done"
    /\ UNCHANGED <<chunk_in, text, max_len, chunks>>
    /\ UNCHANGED <<vars, fvars>>

\* A call chunk_text(text, max_len) with any text and any limit >= 1.
InitChunk ==
    /\ model = [u \in Users |-> NoModel]
    /\ pending = [u \in Users |-> <<>>]
    /\ media_groups = [g \in GroupIds |-> NoGroup]
    /\ tasks = [t \in TaskIds |-> Idle]
    /\ h = Idle
    /\ sent = <<>>
    /\ arrived = [g \in GroupIds |-> <<>>]
    /\ events = 0
    /\ chunk_in \in Texts
    /\ text = chunk_in
    /\ max_len \in 1..MaxChunkLen
    /\ chunks = <<>>
    /\ cpc = "start"
    /\ FileIdle

NextChunk ==
    \/ ChunkEnter
    \/ ChunkIteration
    \/ ChunkReturn

\* The function runs in the event loop without suspension: a call that
\* started keeps running.
SpecChunk == InitChunk /\ [][NextChunk]_cvars /\ WF_cvars(NextChunk)

\* ------------------------------------------------------ temp_output.png
\* The image bytes the backend returns for dispatch i.
Result(i) == 200 + i

\* Mutant of WriteBytes: an existing file is not overwritten.
WriteBytesKeeps(file, bytes) == IF file = Absent THEN bytes ELSE file

\* output.write_bytes(result_bytes): the content of the file afterwards.
WriteBytes(file, bytes) == bytes

\* process_and_reply in an image mode has sent its progress message and
\* runs the processor in a thread.
ReplyStart(i) ==
    /\ replies[i].pc = "idle"
    /\ replies' = [replies EXCEPT ![i].pc = "backend"]
    /\ UNCHANGED temp_output
    /\ UNCHANGED <<vars, cvars>>

\* The processor returned (ok) or raised.  On success the result is written
\* to temp_output.png and the file is opened for reply_photo, which is then
\* awaited; the handle holds what the file holds when it is opened.
ReplyResult(i, ok) ==
    /\ replies[i].pc = "backend"
    /\ IF ok
       THEN LET written == WriteBytes(temp_output, Result(i)) IN
            /\ temp_output' = written
            /\ replies' = [replies EXCEPT ![i] =
                              [pc |-> "reply_photo", result_bytes |-> Result(i),
                               photo |-> written]]
       ELSE /\ replies' = [replies EXCEPT ![i].pc = "done"]
            /\ UNCHANGED temp_output
    /\ UNCHANGED <<vars, cvars>>

\* reply_photo returned or raised: the finally clause unlinks the file; after
\* a success the deletion of the progress message is awaited.
ReplySent(i, ok) ==
    /\ replies[i].pc = "reply_photo"
    /\ temp_output' = Absent
    /\ replies' = [replies EXCEPT ![i].pc = IF ok THEN "delete" ELSE "done"]
    /\ UNCHANGED <<vars, cvars>>

\* message.delete() returned: process_and_reply returns.
ReplyDeleted(i) ==
    /\ replies[i].pc = "delete"
    /\ replies' = [replies EXCEPT ![i].pc = "done"]
    /\ UNCHANGED temp_output
    /\ UNCHANGED <<vars, cvars>>

\* Image dispatches of handlers and flush tasks that run concurrently.
InitFile ==
    /\ model = [u \in Users |-> NoModel]
    /\ pending = [u \in Users |-> <<>>]
    /\ media_groups = [g \in GroupIds |-> NoGroup]
    /\ tasks = [t \in TaskIds |-> Idle]
    /\ h = Idle
    /\ sent = <<>>
    /\ arrived = [g \in GroupIds |-> <<>>]
    /\ events = 0
    /\ ChunkIdle
    /\ FileIdle

NextFile ==
    \/ \E i \in Replies : ReplyStart(i)
    \/ \E i \in Replies, ok \in BOOLEAN : ReplyResult(i, ok)
    \/ \E i \in Replies, ok \in BOOLEAN : ReplySent(i, ok)
    \/ \E i \in Replies : ReplyDeleted(i)

SpecFile == InitFile /\ [][NextFile]_fvars

\* =============================================================== claims
\* The coroutines that exist: the handler and the flush tasks.
Procs == {h} \cup {tasks[t] : t \in TaskIds}

\* The images a coroutine received with its own update(s): the photo of a
\* handle_images update, the files of a flushed album.
NewImages(p) ==
    CASE p.kind = "photo" -> <<Download(p.fid)>>
      [] p.kind = "flush" -> [i \in 1..Len(p.file_ids) |-> Download(p.file_ids[i])]
      [] OTHER -> <<>>

\* The last ten elements of a sequence of more than ten.
Tail10(s) == [i \in 1..10 |-> s[Len(s) - 10 + i]]

\* C1: immediately after any mode command (/start, /text, /image1, /image15,
\* /dalle, /create, /dalle_gen) of a conversation its pending_attachments
\* is empty, whatever was buffered before.
C1_ModeCommandClearsPending ==
    [][\A u \in Users :
          (\E c \in DOMAIN Commands : ModeCommand(u, c)) => pending'[u] = <<>>]_vars

\* A step of coroutine p (p before, q after) that takes it into the wait
\* for the "maximum 10" warning.
EntersWarn(p, q) == p.pc = "download" /\ q.pc = "warn"

\* What a coroutine that was capped stores or dispatches when it resumes.
LeavesWarn(p, q) ==
    p.pc = "warn" /\ q.pc # "warn" =>
        \/ q.pc = "progress" /\ q.images = p.images /\ pending'[p.user] = <<>>
        \/ q = Idle /\ pending'[p.user] = p.images

\* The list a coroutine in "download" has once its last download is in: the
\* buffered images followed by its own (in the text mode only its own count).
Buffered(p) == IF p.kind = "flush" THEN pending[p.user] ELSE p.read

\* The step of p delivers its last download, in a mode that merges.
LastDownload(p, q) ==
    /\ p.pc = "download" /\ p.mode # "gpt-5.2"
    /\ q.pc # "download"
    /\ ~(q = Idle /\ sent' = <<>>)

CapStep(p, q) ==
    /\ LastDownload(p, q) /\ Len(Buffered(p) \o NewImages(p)) > 10 =>
          /\ q.pc = "warn"
          /\ q.images = Tail10(Buffered(p) \o NewImages(p))
          /\ sent' = <<Msg(p.user, "warn10", 0)>>
    /\ EntersWarn(p, q) => Len(Buffered(p) \o NewImages(p)) > 10
    /\ LeavesWarn(p, q)

\* C2: pending_attachments never holds more than 10 images; a merge of the
\* buffered and the newly received images that exceeds 10 keeps exactly the
\* last 10 in order, stores or dispatches those, and warns the user.
C2_PendingCapped ==
    [][/\ \A u \in Users : Len(pending'[u]) <= 10
       /\ CapStep(h, h')
       /\ \A t \in TaskIds : CapStep(tasks[t], tasks'[t])
       /\ \A q \in {h'} \cup {tasks'[t] : t \in TaskIds} :
             q.pc \in {"progress", "backend"} => Len(q.images) <= 10]_vars

\* C2 witness: a captionless eleventh image was received and the buffer now
\* holds the last ten (the oldest of the nine restored ones is gone).
C2_Witness ==
    /\ sent = <<Msg("u1", "status", 10)>>
    /\ Len(pending["u1"]) = 10
    /\ pending["u1"][1] = Stored9[2]

\* C3: at every moment the registry entry of a group holds the file ids of
\* the events that arrived for it, in arrival order and with duplicates;
\* the flush that pops the group takes exactly that sequence and downloads
\* it in that order.
C3_BatchIsArrivals ==
    [][/\ \A g \in GroupIds :
             media_groups'[g] # NoGroup => media_groups'[g].file_ids = arrived'[g]
       /\ \A t \in TaskIds :
             /\ tasks[t].pc = "sleep" /\ tasks'[t].pc \notin {"sleep", "idle"} =>
                   tasks'[t].file_ids = arrived[tasks[t].group]
             /\ tasks'[t].pc = "download" =>
                   /\ Len(tasks'[t].images) < Len(tasks'[t].file_ids)
                   /\ \A i \in 1..Len(tasks'[t].images) :
                         tasks'[t].images[i] = Download(tasks'[t].file_ids[i])]_vars

\* C3 witness: a flush took a batch of two parts that were the same file
\* sent twice, and has downloaded the first.
C3_Witness ==
    \E t \in TaskIds :
        /\ tasks[t].pc = "download"
        /\ tasks[t].file_ids = <<1, 1>>
        /\ tasks[t].images = <<Download(1)>>

Rank(pc) ==
    CASE pc = "sleep" -> 1 [] pc = "download" -> 2 [] pc = "warn" -> 3
      [] pc = "progress" -> 4 [] pc = "backend" -> 5 [] OTHER -> 6

\* C4: an open group has exactly one flush waiting for it and a group that
\* is not open has none, so no flush finds its group absent; the flush
\* removes the group in the step in which it wakes, before any download or
\* dispatch, and then only moves forward (download, store, dispatch), so
\* the batch is handed over at most once.
C4_OneFlushPerGroup ==
    [][/\ \A g \in GroupIds :
             Cardinality({t \in TaskIds : tasks'[t].pc = "sleep" /\ tasks'[t].group = g})
                = IF media_groups'[g] # NoGroup THEN 1 ELSE 0
       /\ \A t \in TaskIds :
             /\ tasks[t].pc = "sleep" /\ tasks'[t].pc # "sleep" =>
                   /\ media_groups[tasks[t].group] # NoGroup
                   /\ media_groups'[tasks[t].group] = NoGroup
             /\ tasks[t].pc \notin {"idle", "sleep"} =>
                   /\ Rank(tasks'[t].pc) >= Rank(tasks[t].pc)
                   /\ tasks'[t].pc # "idle" => tasks'[t].file_ids = tasks[t].file_ids]_vars

\* C4 witness: a flush has popped its group and is downloading while the
\* same group id is open again with its own waiting flush.
C4_Witness ==
    \E t, s \in TaskIds :
        /\ tasks[t].pc = "download"
        /\ tasks[s].pc = "sleep" /\ tasks[s].group = tasks[t].group
        /\ media_groups[tasks[t].group] # NoGroup

\* C5: one trigger (one handler run, one flush) makes at most one backend
\* request, also when the backend raises or returns nothing.
C5_AtMostOneCall ==
    [][/\ \A q \in {h'} \cup {tasks'[t] : t \in TaskIds} : q.calls <= 1
       /\ h.pc = "backend" /\ h' # h => h' = Idle
       /\ \A t \in TaskIds :
             tasks[t].pc = "backend" /\ tasks'[t] # tasks[t] => tasks'[t] = Idle]_vars

\* C5 witness: a backend request failed and its coroutine has returned.
C5_Witness ==
    \E u \in Users : sent = <<Msg(u, "edit:error", 0)>> /\ h = Idle

\* C6: the update of pending_attachments by the handler of a captionless
\* single image, in an edit mode, is atomic with respect to a concurrent
\* captionless flush: when the handler stores, nothing that is in the buffer
\* at that moment (the images the flush stored while the handler awaited
\* its download) is lost, and the handler's own image is added.
C6_NoLostUpdate ==
    [][(/\ PhotoDownloaded(TRUE)
        /\ h.mode \in EditModes /\ Blank(h.prompt)
        /\ Len(pending[h.user]) < 10)
       => /\ \A i \in 1..Len(pending[h.user]) :
                \E j \in 1..Len(pending'[h.user]) :
                    pending'[h.user][j] = pending[h.user][i]
          /\ \E j \in 1..Len(pending'[h.user]) :
                pending'[h.user][j] = Download(h.fid)]_vars

\* C7: a conversation for which no mode was ever set is handled under the
\* TextChat rules: its handlers and flushes run in mode gpt-5.2, a request
\* they make is a chat request, and it is never told to send an image first.
C7_DefaultModeIsTextChat ==
    /\ \A p \in Procs :
          p.pc \notin {"idle", "sleep"} /\ model[p.user] = NoModel =>
              /\ p.mode = "gpt-5.2"
              /\ p.pc = "backend" => p.call.op = "chat"
    /\ \A u \in Users :
          model[u] = NoModel => \A i \in 1..Len(sent) : sent[i] # Msg(u, "need_image", 0)

\* C8: in an edit mode a text that arrives while the buffer is empty is
\* answered with "send an image first": the handler returns without a
\* backend request and pending_attachments and the mode are unchanged.
C8_TextWithoutImageRejected ==
    [][\A u \in Users, n \in TextLens :
          (TextMessage(u, n) /\ get_model(u) \in EditModes /\ pending[u] = <<>>)
          => /\ sent' = <<Msg(u, "need_image", 0)>>
             /\ h' = Idle
             /\ UNCHANGED <<pending, model, tasks>>]_vars

\* C8 witness: the user chose EditLegacy, sent a text with nothing buffered
\* and got the diagnostic.
C8_Witness ==
    \E u \in Users :
        /\ model[u] = "dall-e-2" /\ pending[u] = <<>>
        /\ sent = <<Msg(u, "need_image", 0)>> /\ h = Idle /\ events = 2

\* The step of p (p before, q after) ends the handling of captionless
\* attachments, downloads having succeeded.
CaptionlessEnd(p, q, step) ==
    /\ p.pc \in {"download", "warn"} /\ Blank(p.prompt)
    /\ step
    /\ q.pc \notin {"download", "warn"}

\* C9: captionless attachments in the text and edit modes never lead to a
\* backend request: the coroutine stores the images and returns, replying
\* with a status whose count is the length of the buffer after the store.
C9_CaptionlessStoredAndCounted ==
    [][/\ \A q \in {h'} \cup {tasks'[t] : t \in TaskIds} :
             (q.kind \in {"photo", "flush"} /\ Blank(q.prompt)
                /\ q.pc \notin {"idle", "sleep"} /\ q.mode \notin CreateModes)
             => q.pc \in {"download", "warn"} /\ q.calls = 0
       /\ CaptionlessEnd(h, h', PhotoDownloaded(TRUE) \/ PhotoStore)
             => /\ h' = Idle
                /\ Len(pending'[h.user]) >= 1
                /\ sent' = <<Msg(h.user, "status", Len(pending'[h.user]))>>
       /\ \A t \in TaskIds :
             CaptionlessEnd(tasks[t], tasks'[t], FlushDownload(t, TRUE) \/ FlushStore(t))
             => /\ tasks'[t] = Idle
                /\ Len(pending'[tasks[t].user]) >= 1
                /\ sent' = <<Msg(tasks[t].user, "status", Len(pending'[tasks[t].user]))>>]_vars

\* C9 witness: a captionless album of two was flushed: two images are
\* buffered, the status says 2 and no coroutine is left running.
C9_Witness ==
    \E u \in Users :
        /\ sent = <<Msg(u, "status", 2)>> /\ Len(pending[u]) = 2
        /\ \A t \in TaskIds : tasks[t] = Idle
        /\ h = Idle /\ events = 2 /\ arrived = [g \in GroupIds |-> <<>>]

\* C10 as claimed: whenever a request is assembled with buffered images,
\* the images passed to the backend are exactly the buffered ones followed
\* by those of the triggering event.
C10_RequestIsBufferPlusEvent ==
    \A p \in Procs :
        (p.pc = "backend" /\ p.call.op \in {"edit", "chat"} /\ p.read # <<>>)
        => p.call.images = p.read \o NewImages(p)

\* A step of coroutine p (p before, q after) inside the assembly and dispatch.
DispatchStep(p, q) ==
    /\ p.pc # "progress" /\ q.pc = "progress" => pending'[q.user] = <<>>
    /\ p.pc \in {"progress", "backend"} /\ q # p => pending' = pending
    /\ (/\ q.pc = "backend"
        /\ q.mode \in {"gpt-image-1", "gpt-image-1.5"}
        /\ q.par_model \in {"gpt-image-1", "gpt-image-1.5"}
        /\ Len(q.read \o NewImages(q)) <= 10)
       => q.call.images = q.read \o NewImages(q)

\* C10 amended: the buffer is emptied when process_and_reply is entered,
\* before the backend call, and process_and_reply never writes it; in
\* EditModelA and EditModelB, when the buffered images and those of the
\* triggering event are at most 10 together, the images passed to the backend
\* are exactly the buffered ones followed by those of the event.
C10_BufferClearedAndPassed ==
    [][/\ DispatchStep(h, h')
       /\ \A t \in TaskIds : DispatchStep(tasks[t], tasks'[t])]_vars

\* C10 witness: an edit request is in flight that carries the nine buffered
\* images followed by the image of the captioned photo, and the buffer is empty.
C10_Witness ==
    /\ h.pc = "backend" /\ h.kind = "photo" /\ h.par_model = "gpt-image-1.5"
    /\ h.read = Stored9
    /\ h.call.images = Stored9 \o <<Download(h.fid)>>
    /\ pending[h.user] = <<>>

\* ------------------------------------------------------ claims C11 - C20
\* C11: in mode gpt-image-1, with an initially empty buffer, after an album
\* of three captionless photos (files 2, 3, 4) was flushed and buffered, the
\* flush of a further album part that carries the caption "make it blue"
\* makes one edit request whose images are exactly those three, and the
\* buffer is empty afterwards.
C11_CaptionPartSendsTheThree ==
    \A t \in TaskIds :
        (/\ tasks[t].pc = "backend"
         /\ tasks[t].mode = "gpt-image-1"
         /\ tasks[t].read = <<Download(2), Download(3), Download(4)>>
         /\ tasks[t].file_ids = <<5>> /\ tasks[t].prompt = Text(12))
        => /\ tasks[t].calls = 1
           /\ tasks[t].call.op = "edit"
           /\ tasks[t].call.images = tasks[t].read
           /\ pending[tasks[t].user] = <<>>

\* C12: an album part that joins an open group gives the group its caption
\* when the group has none yet (so that the flush dispatches the batch with
\* it), and never replaces a caption the group already has.
C12_LaterCaptionAdopted ==
    [][\A u \in Users, g \in GroupIds, f \in FileIds, c \in CaptionLens :
          (AlbumPart(u, g, f, c) /\ media_groups[g] # NoGroup)
          => media_groups'[g].caption =
                IF Blank(media_groups[g].caption) THEN Text(c)
                ELSE media_groups[g].caption]_vars

\* C13: an edit request made in mode dall-e-2 carries exactly one image,
\* and when it is made for a captioned album of several images (no more
\* than 10 images being at hand, so that nothing is cut) that image is the
\* first one received of that album.
C13_LegacyEditsFirstOfBatch ==
    \A t \in TaskIds :
        (/\ tasks[t].pc = "backend"
         /\ tasks[t].call.op = "edit" /\ tasks[t].call.model = "dall-e-2")
        => /\ Len(tasks[t].call.images) = 1
           /\ (/\ Len(tasks[t].file_ids) > 1
               /\ Len(tasks[t].read) + Len(tasks[t].file_ids) <= MaxImages)
              => tasks[t].call.images = <<Download(tasks[t].file_ids[1])>>

\* C14: in mode create a text of more than 4000 characters is cut to its
\* first 4000 characters plus the marker, one truncation warning is sent,
\* and generate is called once, with the cut text; a text of at most 4000
\* characters is passed unchanged, with no warning.
C14_CreateTextTruncated ==
    [][/\ \A u \in Users, n \in TextLens :
             (TextMessage(u, n) /\ get_model(u) = "create" /\ n > 0)
             => IF n > 4000
                THEN /\ h'.pc = "textwarn"
                     /\ h'.prompt = [len |-> 4000, cut |-> TRUE]
                     /\ sent' = <<Msg(u, "cut", 0)>>
                ELSE /\ h'.pc = "progress"
                     /\ h'.prompt = [len |-> n, cut |-> FALSE]
                     /\ sent' = <<Msg(u, "progress", 0)>>
       /\ (h.kind = "text" /\ h.mode = "create" /\ h' # h)
             => /\ \A i \in 1..Len(sent') : sent'[i].tag # "cut"
                /\ h.pc = "textwarn" => h'.pc = "progress" /\ h'.prompt = h.prompt
                /\ h.pc = "progress" =>
                      /\ h'.pc = "backend" /\ h'.calls = 1
                      /\ h'.call = [op |-> "generate", model |-> "gpt-image-1.5",
                                    images |-> <<>>, prompt |-> h.prompt]
                /\ h.pc = "backend" => h' = Idle]_vars

\* C14 witness: the generate request for a text of 4001 characters is in
\* flight, with the text cut to 4000 characters and marked.
C14_Witness ==
    /\ h.pc = "backend" /\ h.kind = "text" /\ h.mode = "create"
    /\ h.call.op = "generate" /\ h.call.images = <<>>
    /\ h.call.prompt = [len |-> 4000, cut |-> TRUE]

\* C15: every instruction passed to the generate request of mode
\* dalle_create (from a text, from the caption of a single attachment or
\* from the caption of a flushed group) holds at most 1000 characters of
\* the user's text.
C15_LegacyInstructionCapped ==
    \A p \in Procs :
        (p.pc = "backend" /\ p.par_model = "dalle_create")
        => p.call.op = "generate" /\ p.call.prompt.len <= 1000

\* C16: while a conversation is in mode create or dalle_create no download
\* of an attachment of it is started, and every request dispatched in
\* these modes is a generate request without images.
C16_GenerateModesNeverDownload ==
    [][/\ \A t \in TaskIds :
             (tasks'[t].pc = "download" /\ tasks'[t] # tasks[t])
             => get_model(tasks'[t].user) \notin CreateModes
       /\ (h'.pc = "download" /\ h' # h) => get_model(h'.user) \notin CreateModes
       /\ \A q \in {h'} \cup {tasks'[t] : t \in TaskIds} :
             (q.pc = "backend" /\ q.par_model \in CreateModes)
             => q.call.op = "generate" /\ q.call.images = <<>>]_vars

\* C17: in mode gpt-5.2 a non-empty text sent while nothing is buffered
\* leads to one chat request without images; the answer is sent as text
\* after the progress message is deleted, and no photo is sent.
C17_TextChatPlainText ==
    [][/\ \A u \in Users, n \in TextLens :
             (TextMessage(u, n) /\ get_model(u) = "gpt-5.2" /\ pending[u] = <<>> /\ n > 0)
             => h'.pc \in {"progress", "textwarn"} /\ h'.images = <<>>
       /\ (h.kind = "text" /\ h.mode = "gpt-5.2" /\ h.read = <<>> /\ h' # h)
             => /\ h.pc = "textwarn" => h'.pc = "progress" /\ h'.images = <<>>
                /\ h.pc = "progress" =>
                      /\ h'.pc = "backend" /\ h'.calls = 1
                      /\ h'.call = [op |-> "chat", model |-> "gpt-5.2",
                                    images |-> <<>>, prompt |-> h.prompt]
                /\ h.pc = "backend" =>
                      /\ h' = Idle
                      /\ \A i \in 1..Len(sent') : sent'[i].tag # "photo"
                      /\ HandlerReturn("ok") =>
                            sent' = <<Msg(h.user, "delete", 0), Msg(h.user, "text", 0)>>]_vars

\* C17 witness: the chat request of a text sent with nothing buffered is
\* in flight, without images.
C17_Witness ==
    /\ h.pc = "backend" /\ h.kind = "text" /\ h.par_model = "gpt-5.2"
    /\ h.read = <<>> /\ pending[h.user] = <<>>
    /\ h.call.op = "chat" /\ h.call.images = <<>> /\ h.calls = 1

\* C18: while a conversation is in mode gpt-5.2 its pending_images holds at
\* most one image, and every chat request carries at most one image.
C18_TextChatHoldsOneImage ==
    /\ \A u \in Users : model[u] = "gpt-5.2" => Len(pending[u]) <= 1
    /\ \A p \in Procs :
          (p.pc = "backend" /\ p.call.op = "chat") => Len(p.call.images) <= 1

\* C19: when the backend raises the moderation error during an edit
\* request, the progress message is turned into the fixed moderation text
\* (not the text of the exception), nothing else is sent, in particular no
\* photo, and process_and_reply returns without another request.
C19_ModerationSanitized ==
    [][/\ (h.pc = "backend" /\ h.call.op = "edit" /\ HandlerReturn("blocked"))
             => sent' = <<Msg(h.user, "edit:blocked", 0)>> /\ h' = Idle
       /\ \A t \in TaskIds :
             (tasks[t].pc = "backend" /\ tasks[t].call.op = "edit" /\ FlushReturn(t, "blocked"))
             => sent' = <<Msg(tasks[t].user, "edit:blocked", 0)>> /\ tasks'[t] = Idle]_vars

\* C19 witness: no mode was ever chosen (so the only requests are edits in
\* the default mode), a request was blocked and its coroutine has returned.
C19_Witness ==
    /\ \A u \in Users : model[u] = NoModel
    /\ \E u \in Users : sent = <<Msg(u, "edit:blocked", 0)>>
    /\ h = Idle /\ \A t \in TaskIds : tasks[t].pc # "backend"

\* C20: when a download fails during the flush of a group, the flush ends
\* and the owner of the group is sent a message about the failure.
C20_DownloadFailureReported ==
    [][\A t \in TaskIds :
          FlushDownload(t, FALSE)
          => /\ tasks'[t] = Idle
             /\ \E i \in 1..Len(sent') : sent'[i].to = tasks[t].user]_vars

\* ------------------------------------------------------ claims C21 - C30
\* C21: a text that is blank after strip(), in any mode, is answered with a
\* message and leaves pending_images of the conversation as it was, also
\* in an edit mode with images buffered.
C21_BlankTextKeepsPending ==
    [][\A u \in Users :
          TextMessage(u, 0) => pending'[u] = pending[u] /\ sent' # <<>>]_vars

\* The messages msgs hold exactly one failure notice, sent to u, and no
\* result (photo or answer text).
FailureOnly(msgs, u) ==
    /\ Cardinality({i \in 1..Len(msgs) :
                      msgs[i].tag \in {"edit:error", "edit:blocked", "empty_answer"}}) = 1
    /\ \A i \in 1..Len(msgs) : msgs[i].to = u /\ msgs[i].tag \notin {"photo", "text"}

\* C22: when the backend raises or returns nothing, process_and_reply sends
\* exactly one failure notice and no result, makes no further request and
\* returns.
C22_FailureOneMessage ==
    [][\A o \in {"error", "empty"} :
          /\ HandlerReturn(o) => h' = Idle /\ FailureOnly(sent', h.user)
          /\ \A t \in TaskIds :
                FlushReturn(t, o) => tasks'[t] = Idle /\ FailureOnly(sent', tasks[t].user)]_vars

\* C22 witness: a chat request returned no text: the progress message was
\* deleted, the empty-answer notice sent and the coroutine has returned.
C22_Witness ==
    /\ \E u \in Users : sent = <<Msg(u, "delete", 0), Msg(u, "empty_answer", 0)>>
    /\ h = Idle /\ \A t \in TaskIds : tasks[t] = Idle

\* C23: a request to images.edit carries between 1 and 10 images and a
\* non-blank instruction, and every image list handed to process_and_reply
\* has at most 10 elements.
C23_EditArguments ==
    \A p \in Procs :
       /\ p.pc = "backend" /\ p.call.op = "edit" =>
             /\ 1 <= Len(p.call.images) /\ Len(p.call.images) <= MaxImages
             /\ ~Blank(p.call.prompt)
       /\ p.pc = "progress" => Len(p.images) <= MaxImages

\* C23 witness: an edit request with ten images is at the backend.
C23_Witness ==
    \E p \in Procs :
       p.pc = "backend" /\ p.call.op = "edit" /\ Len(p.call.images) = MaxImages

\* "".join(chunks)
RECURSIVE Concat(_)
Concat(ss) == IF ss = <<>> THEN <<>> ELSE Head(ss) \o Concat(Tail(ss))

\* C24: the chunks chunk_text returns, concatenated in order, are the text
\* it was given, and the empty text gives the empty sequence.
C24_ChunksReproduceText ==
    cpc = "done" =>
        /\ Concat(chunks) = chunk_in
        /\ chunks = chunk_text(chunk_in, max_len)
        /\ chunk_in = <<>> => chunks = <<>>

\* C24 witness: a text was returned in several chunks, the first of them cut
\* short of max_len.
C24_Witness ==
    cpc = "done" /\ Len(chunks) >= 2 /\ Len(chunks[1]) < max_len

\* Every returned chunk is non-empty, at most max_len long and is returned
\* alone when chunked again.
ChunksValid ==
    \A i \in 1..Len(chunks) :
       /\ chunks[i] # <<>>
       /\ Len(chunks[i]) <= max_len
       /\ chunk_text(chunks[i], max_len) = <<chunks[i]>>

\* C25 as stated: every chunk is valid and every text of length at most
\* max_len is returned as a single chunk.
C25_ShortTextSingleChunk ==
    cpc = "done" =>
        /\ ChunksValid
        /\ Len(chunk_in) <= max_len => chunks = <<chunk_in>>

\* C25 amended: every chunk is non-empty, at most max_len long and returned
\* alone when chunked again, and every non-empty text of length at most
\* max_len is returned as a single chunk (the empty text gives no chunk).
C25_NonEmptyShortTextSingleChunk ==
    cpc = "done" =>
        /\ ChunksValid
        /\ chunk_in # <<>> /\ Len(chunk_in) <= max_len => chunks = <<chunk_in>>
        /\ chunk_in = <<>> => chunks = <<>>

\* C25 witness: a non-empty text of exactly max_len characters was returned
\* as its only chunk.
C25_Witness ==
    cpc = "done" /\ chunk_in # <<>> /\ Len(chunk_in) = max_len /\ chunks = <<chunk_in>>

\* The window of an iteration and the 0-based index of its last newline.
Window == FirstN(text, max_len)
LastNewline == rfind(Window, NL)

\* The chunk an iteration has appended.
Emitted == chunks'[Len(chunks')]

\* C26 as stated: an iteration cuts at max_len, except that it cuts at the
\* last newline of the window when that newline lies within the first half
\* of the window.
C26_CutsAtNewlineInFirstHalf ==
    [][ChunkIteration =>
          IF LastNewline >= 0 /\ LastNewline <= max_len \div 2
          THEN Len(Emitted) \in {LastNewline, LastNewline + 1}
          ELSE Emitted = Window]_cvars

\* C26 amended: an iteration cuts at max_len (or takes the whole remainder
\* when shorter), except that it cuts just after the last newline of the
\* window when the index of that newline is greater than max_len // 2,
\* that is when the newline lies beyond the first half of the window.
C26_CutsAfterNewlineBeyondHalf ==
    [][ChunkIteration =>
          /\ Emitted = SubSeq(text, 1, Len(Emitted))
          /\ Len(chunks') = Len(chunks) + 1
          /\ IF 2 * LastNewline > max_len
             THEN Len(Emitted) = LastNewline + 1 /\ Emitted[Len(Emitted)] = NL
             ELSE Len(Emitted) = IF Len(text) < max_len THEN Len(text) ELSE max_len]_cvars

\* C26 witness: an iteration cut after a newline, short of max_len, and text
\* remains.
C26_Witness ==
    /\ cpc = "loop" /\ text # <<>> /\ chunks # <<>>
    /\ Len(chunks[Len(chunks)]) < max_len
    /\ chunks[Len(chunks)][Len(chunks[Len(chunks)])] = NL

\* C27: every iteration removes at least one character from the remaining
\* text, the number of iterations is at most len(text), and the call
\* returns.
C27_Terminates ==
    /\ [][ChunkIteration =>
             Len(text') < Len(text) /\ Len(chunks') <= Len(chunk_in)]_cvars
    /\ <>(cpc = "done" /\ text = IF Len(chunk_in) <= max_len THEN chunk_in ELSE <<>>)

\* C27 witness: the loop has ended after len(text) iterations on a text of
\* the greatest length.
C27_Witness ==
    /\ cpc = "done" /\ text = <<>>
    /\ Len(chunks) = Len(chunk_in) /\ Len(chunk_in) = MaxTextLen

\* The flush tasks waiting (asleep) for group g.
Sleepers(g) == {t \in TaskIds : tasks[t].pc = "sleep" /\ tasks[t].group = g}

\* Task t has removed group g from the registry and has not returned yet.
Flushing(t, g) == tasks[t].group = g /\ tasks[t].pc \notin {"idle", "sleep"}

\* C28: the event that opens a group creates exactly one flush task and
\* touches no other; an event that joins an open group creates none and
\* leaves every task as it was; a waiting flush task is changed by no step
\* but its own waking.
C28_OneFlushAtOpening ==
    [][/\ \A g \in GroupIds, c \in AlbumCaptions :
             AlbumPart(AlbumUser, g, events + 1, c) =>
                IF media_groups[g] # NoGroup
                THEN tasks' = tasks
                ELSE \E t \in TaskIds :
                        /\ tasks[t].pc = "idle"
                        /\ tasks'[t].pc = "sleep" /\ tasks'[t].group = g
                        /\ \A s \in TaskIds \ {t} : tasks'[s] = tasks[s]
       /\ \A t \in TaskIds :
             tasks[t].pc = "sleep" /\ tasks'[t] # tasks[t] => FlushPop(t)]_vars

\* C28 witness: two parts have arrived for a group that is still open and
\* exactly one flush task exists, the one waiting for it.
C28_Witness ==
    \E g \in GroupIds, t \in TaskIds :
        /\ media_groups[g] # NoGroup /\ Len(media_groups[g].file_ids) = 2
        /\ Sleepers(g) = {t}
        /\ \A s \in TaskIds \ {t} : tasks[s] = Idle

\* C29: while a flush that removed group g is running and no other flush
\* waits for g, g is not in the registry; a part with that id then opens a
\* fresh group that holds only this part, with a flush task of its own, and
\* leaves the running flush and its batch as they were; a running flush
\* never waits again.
C29_ClosedGroupReopensFresh ==
    [][/\ \A g \in GroupIds :
             (\E t \in TaskIds : Flushing(t, g)') /\ Sleepers(g)' = {} =>
                 media_groups'[g] = NoGroup
       /\ \A g \in GroupIds, c \in AlbumCaptions :
             /\ AlbumPart(AlbumUser, g, events + 1, c)
             /\ media_groups[g] = NoGroup
             /\ \E t \in TaskIds : Flushing(t, g)
             => /\ media_groups'[g].file_ids = <<events + 1>>
                /\ \A t \in TaskIds : Flushing(t, g) => tasks'[t] = tasks[t]
                /\ \E s \in TaskIds :
                      tasks[s].pc = "idle" /\ tasks'[s].pc = "sleep" /\ tasks'[s].group = g
       /\ \A t \in TaskIds, g \in GroupIds : Flushing(t, g) => tasks'[t].pc # "sleep"]_vars

\* C29 witness: the flush of a group holds the first part and is
\* downloading, while the same id is open again with the second part only
\* and a flush task of its own.
C29_Witness ==
    \E g \in GroupIds, t, s \in TaskIds :
        /\ Flushing(t, g) /\ tasks[t].pc = "download" /\ tasks[t].file_ids = <<1>>
        /\ media_groups[g] # NoGroup /\ media_groups[g].file_ids = <<2>>
        /\ Sleepers(g) = {s}

\* C30: every open group has a flush waiting for it and is removed only by
\* the waking of such a flush; every open group is eventually removed, and
\* every flush that was created eventually returns.
C30_FlushAlwaysRuns ==
    /\ [][\A g \in GroupIds :
             /\ media_groups'[g] # NoGroup => Sleepers(g)' # {}
             /\ media_groups[g] # NoGroup /\ media_groups'[g] = NoGroup =>
                   \E t \in Sleepers(g) : FlushPop(t)]_vars
    /\ \A g \in GroupIds : (media_groups[g] # NoGroup) ~> (media_groups[g] = NoGroup)
    /\ \A t \in TaskIds : (tasks[t].pc # "idle") ~> (tasks[t].pc = "idle")

\* C30 witness: a flush has removed its group of two parts and handed the
\* batch over: its request is at the backend.
C30_Witness ==
    \E t \in TaskIds :
        /\ tasks[t].kind = "flush" /\ tasks[t].pc = "backend"
        /\ Len(tasks[t].file_ids) = 2
        /\ media_groups[tasks[t].group] = NoGroup

\* ---------------------------------------------------- claims C31 - C38
\* A step of an update handler that is not an album part: a mode command, a
\* text, a single photo, or the continuation of one of them.
HandlerStep ==
    \/ \E c \in RaceCommands : ModeCommand(AlbumUser, c)
    \/ \E n \in RaceTexts : TextMessage(AlbumUser, n)
    \/ \E c \in AlbumCaptions : SinglePhoto(AlbumUser, events + 1, c)
    \/ \E ok \in BOOLEAN : PhotoDownloaded(ok)
    \/ PhotoStore \/ TextResume \/ HandlerCall
    \/ \E o \in Outcomes : HandlerReturn(o)

\* C31: a mode command, a text or a single photo of a conversation, and
\* every later step of its handling, leaves the group registry and the
\* flush tasks as they were, and a group that is open is eventually flushed
\* (removed from the registry by its flush).
C31_OpenGroupUnaffected ==
    /\ [][HandlerStep => media_groups' = media_groups /\ tasks' = tasks]_vars
    /\ (media_groups[AlbumGroup] # NoGroup) ~> (media_groups[AlbumGroup] = NoGroup)

\* C31 witness: a text of the conversation is being dispatched while its
\* album is still open, the flush waiting.
C31_Witness ==
    /\ h.kind = "text" /\ h.pc = "backend"
    /\ media_groups[AlbumGroup] # NoGroup
    /\ \E t \in TaskIds : tasks[t].pc = "sleep" /\ tasks[t].group = AlbumGroup

\* A step of the handling of a single (non-album) photo.
SingleStep ==
    \/ \E c \in AlbumCaptions : SinglePhoto(AlbumUser, events + 1, c)
    \/ \E ok \in BOOLEAN : PhotoDownloaded(ok)
    \/ PhotoStore

\* The handler of a single photo has its final list: with a caption the
\* list, ending with the downloaded photo, is dispatched; without, it is
\* stored in pending_images.
HandedOver ==
    IF Blank(h.prompt)
    THEN /\ h' = Idle
         /\ pending'[h.user] # <<>>
         /\ pending'[h.user][Len(pending'[h.user])] = Download(h.fid)
    ELSE /\ h'.pc = "progress" /\ h'.kind = "photo"
         /\ h'.images # <<>>
         /\ h'.images[Len(h'.images)] = Download(h.fid)

\* No step of the handling of a single photo changes the group registry or
\* the flush tasks, and a photo that was downloaded is dispatched or stored
\* by the handler of its own event.
SingleNeverGrouped ==
    /\ SingleStep => media_groups' = media_groups /\ tasks' = tasks
    /\ PhotoDownloaded(TRUE) => h'.pc = "warn" \/ HandedOver
    /\ PhotoStore => HandedOver

\* C32 as stated: in every mode a single photo is downloaded by the handler
\* of its event and then dispatched or stored, without touching the group
\* registry or the flush tasks.
C32_SingleAlwaysDownloaded ==
    [][/\ SingleNeverGrouped
       /\ \A c \in AlbumCaptions :
             SinglePhoto(AlbumUser, events + 1, c) =>
                h'.pc = "download" /\ h'.fid = events + 1]_vars

\* C32 amended: a single photo never enters the group registry and never
\* creates a flush task; in the edit and chat modes the handler of its event
\* downloads it and, once downloaded, dispatches it (caption) or stores it
\* (no caption); in the generate modes it is not downloaded: its caption is
\* dispatched without images, or a notice is sent and nothing is stored.
C32_SingleHandledInPlace ==
    [][/\ SingleNeverGrouped
       /\ \A c \in AlbumCaptions :
             SinglePhoto(AlbumUser, events + 1, c) =>
                IF get_model(AlbumUser) \in CreateModes
                THEN IF c # 0
                     THEN h'.pc = "progress" /\ h'.images = <<>>
                     ELSE h' = Idle /\ pending' = pending
                ELSE h'.pc = "download" /\ h'.fid = events + 1]_vars

\* C32 witness: a captionless single photo was stored by its handler, and
\* no group is open and no flush task exists.
C32_Witness ==
    /\ h = Idle /\ sent # <<>> /\ sent[1].tag = "status"
    /\ pending[AlbumUser] # <<>>
    /\ pending[AlbumUser][Len(pending[AlbumUser])] = Download(events)
    /\ media_groups[AlbumGroup] = NoGroup
    /\ \A t \in TaskIds : tasks[t] = Idle

\* C33: a flush writes pending_images and makes a request only after its
\* last download: waking into the download loop and every download but the
\* last leave pending_images unchanged, a flush that is downloading has made
\* no request, and a download that raises ends the flush with
\* pending_images unchanged and without a request.
C33_FailedFlushLeavesNoTrace ==
    [][\A t \in TaskIds :
          /\ FlushDownload(t, FALSE) =>
                /\ tasks'[t] = Idle /\ tasks[t].calls = 0
                /\ pending' = pending
                /\ \A i \in 1..Len(sent') : sent'[i].tag \notin {"progress", "status"}
          /\ (FlushPop(t) /\ tasks'[t].pc = "download") => pending' = pending
          /\ (FlushDownload(t, TRUE) /\ tasks'[t].pc = "download") => pending' = pending
          /\ tasks'[t].pc = "download" => tasks'[t].calls = 0 /\ tasks'[t].call = NoCall]_vars

\* C33 witness: the flush of an album of two has downloaded the first file
\* and awaits the second, whose download may raise; the buffer still holds
\* the nine images it held before the flush.
C33_Witness ==
    \E t \in TaskIds :
        /\ tasks[t].pc = "download"
        /\ Len(tasks[t].file_ids) = 2 /\ Len(tasks[t].images) = 1
        /\ pending[AlbumUser] = Stored9

\* C34: the mode a flush dispatches under (read by process_and_reply) is the
\* mode it read when it woke and assembled the batch under.
C34_FlushModeStable ==
    \A t \in TaskIds :
        tasks[t].pc \in {"progress", "backend"} => tasks[t].par_model = tasks[t].mode

\* The images of the request a coroutine has at the backend.
Requested(p) ==
    IF p.pc = "backend" THEN {p.call.images[i] : i \in 1..Len(p.call.images)} ELSE {}

\* C35: no image is in the request of the handler and in the request of a
\* flush task, nor in the requests of two flush tasks.
C35_NoImageInTwoRequests ==
    /\ \A t \in TaskIds : Requested(h) \cap Requested(tasks[t]) = {}
    /\ \A t, s \in TaskIds : t # s => Requested(tasks[t]) \cap Requested(tasks[s]) = {}

\* The conversations whose mode or buffer the step changes.
Changed == {v \in Users : model'[v] # model[v] \/ pending'[v] # pending[v]}

\* The step is one of conversation v: the handling of an update v sent, or
\* a step of a flush whose group is owned by v.
StepOf(v) ==
    \/ events' # events /\ (h'.user = v \/ (sent' # <<>> /\ sent'[1].to = v))
    \/ h.pc # "idle" /\ h' # h /\ h.user = v
    \/ \E t \in TaskIds :
          /\ tasks'[t] # tasks[t]
          /\ IF tasks[t].pc = "sleep"
             THEN media_groups[tasks[t].group].user_id = v
             ELSE tasks[t].user = v

\* C36: every step changes the mode and pending_images of at most one
\* conversation, the one the step belongs to: the sender of the update for
\* a handler, the owner of the group for a flush; the owner of a group does
\* not change while it is open, and a flush works for the owner it found
\* when it removed the group.
C36_SessionsIsolated ==
    [][/\ Cardinality(Changed) <= 1
       /\ \A v \in Changed : StepOf(v)
       /\ \A g \in GroupIds :
             media_groups[g] # NoGroup /\ media_groups'[g] # NoGroup =>
                media_groups'[g].user_id = media_groups[g].user_id
       /\ \A t \in TaskIds :
             /\ (tasks[t].pc = "sleep" /\ tasks'[t].pc \notin {"sleep", "idle"}) =>
                   tasks'[t].user = media_groups[tasks[t].group].user_id
             /\ (tasks[t].pc \notin {"idle", "sleep"} /\ tasks'[t].pc # "idle") =>
                   tasks'[t].user = tasks[t].user]_vars

\* C36 witness: one conversation has nine images buffered and no mode set,
\* the other has chosen a mode and buffered an image of its own.
C36_Witness ==
    /\ pending["u1"] = Stored9 /\ model["u1"] = NoModel
    /\ model["u2"] # NoModel /\ Len(pending["u2"]) = 1

\* The messages of a successful end: the result (a photo, the answer text or
\* the empty-answer notice) and the deletion of the progress message.
SuccessEnd(msgs, u) ==
    /\ Len(msgs) = 2
    /\ \A i \in 1..2 : msgs[i].to = u
    /\ {msgs[1].tag, msgs[2].tag} \in
          {{"photo", "delete"}, {"text", "delete"}, {"empty_answer", "delete"}}

\* The messages of a failed end: the progress message edited into the
\* error text, nothing else.
FailureEnd(msgs, u) ==
    /\ Len(msgs) = 1 /\ msgs[1].to = u
    /\ msgs[1].tag \in {"edit:invalid", "edit:error", "edit:blocked"}

\* Coroutine p takes a step of process_and_reply that leads to q.
DispatchOutcome(p, q) ==
    /\ (p.pc # "progress" /\ q.pc = "progress") =>
          sent' # <<>> /\ sent'[Len(sent')] = Msg(q.user, "progress", 0)
    /\ (p.pc = "progress" /\ q # p) =>
          \/ q.pc = "backend" /\ sent' = <<>>
          \/ q = Idle /\ FailureEnd(sent', p.user) /\ p.calls = 0
    /\ (p.pc = "backend" /\ q # p) =>
          /\ q = Idle
          /\ SuccessEnd(sent', p.user) \/ FailureEnd(sent', p.user)

\* C37: a dispatch sends the progress message when it starts; then either
\* the validation fails and the progress message is edited into the error,
\* or one request is made whose answer ends the dispatch with the result
\* and the deletion of the progress message, or with the progress message
\* edited into the error and nothing else; a success ends with the result,
\* a backend error with the edit.
C37_OneTerminalOutcome ==
    [][/\ DispatchOutcome(h, h')
       /\ \A t \in TaskIds : DispatchOutcome(tasks[t], tasks'[t])
       /\ HandlerReturn("ok") => SuccessEnd(sent', h.user)
       /\ \A o \in {"error", "blocked"} : HandlerReturn(o) => FailureEnd(sent', h.user)
       /\ \A t \in TaskIds :
             /\ FlushReturn(t, "ok") => SuccessEnd(sent', tasks[t].user)
             /\ \A o \in {"error", "blocked"} :
                   FlushReturn(t, o) => FailureEnd(sent', tasks[t].user)]_vars

\* C37 witness: a dispatch ended with the photo sent and the progress
\* message deleted, and its coroutine has returned.
C37_Witness ==
    /\ h = Idle
    /\ sent = <<Msg(AlbumUser, "photo", 0), Msg(AlbumUser, "delete", 0)>>

\* C38: the handle a dispatch gives to reply_photo holds the result of that
\* dispatch, whatever the other dispatches write to or remove from
\* temp_output.png meanwhile.
C38_ReplyHoldsOwnResult ==
    \A i \in Replies :
        replies[i].pc = "reply_photo" =>
            replies[i].photo = Result(i) /\ replies[i].result_bytes = Result(i)

\* C38 witness: two dispatches await reply_photo at the same time, each with
\* its own handle, and the file holds the result of the later one.
C38_Witness ==
    \E i, j \in Replies :
        /\ i # j
        /\ replies[i].pc = "reply_photo" /\ replies[j].pc = "reply_photo"
        /\ replies[i].photo # replies[j].photo
        /\ temp_output = Result(j)
====
